---- MODULE Spec2Model ----
(***************************************************************************)
(* Model of the rport client service (server/clients_service.go, package   *)
(* chserver): the registry of clients, tunnel allocation over the port     *)
(* distributor, termination and removal, access checks.                    *)
(*                                                                         *)
(* Clients are handled through Go pointers.  The model keeps a heap        *)
(* `objs` of client objects; the repository maps a client id to a heap     *)
(* slot (0 = no record).  Handlers that mutate a client through a pointer  *)
(* (Terminate, SetACL, StartTunnel) mutate the heap object, whether or not *)
(* the repository still refers to it.  An object nothing refers to any     *)
(* more is collected and its slot is free again; the heap grows when no    *)
(* slot is free.                                                           *)
(*                                                                         *)
(* Handlers run in goroutines.  A step of a goroutine is the part of its   *)
(* handler from one access to what other goroutines write (a repository    *)
(* call, a field of a shared client) up to the next one; s.mu keeps the    *)
(* handlers that take it apart, the others interleave with everything.     *)
(* A goroutine that calls a handler which takes s.mu binds the arguments   *)
(* at the call and then waits in Lock().                                   *)
(*                                                                         *)
(* A behaviour begins before the service is constructed: NewClientService  *)
(* and InitClientService put it over the repository they are given.        *)
(***************************************************************************)
EXTENDS Naturals, Integers, Sequences, FiniteSets, TLC

\* ------------------------------------------------------------------ bounds
MaxClients == 3      \* client objects alive at one time
MaxPort    == 2      \* the allowed local ports are 1..MaxPort
MaxProcs   == 2      \* goroutines calling into the service at one time
MaxFilters == 2      \* filter options in one list

\* ------------------------------------------------------------ input sets
ClientIDs == {"c1", "c2"}
Targets   == {"rA", "rB"}
Groups    == {"G1", "G2"}
NoClient  == 0

\* ---------------------------------------------------------------- strings
\* A port string is a sequence of one-character strings.
Digits == <<"0", "1", "2", "3", "4", "5", "6", "7", "8", "9">>

IsDigit(ch) == \E d \in 1..10 : Digits[d] = ch

DigitVal(ch) == (CHOOSE d \in 1..10 : Digits[d] = ch) - 1

RECURSIVE AtoiVal(_)
AtoiVal(s) ==
    IF s = <<>> THEN 0
    ELSE AtoiVal(SubSeq(s, 1, Len(s) - 1)) * 10 + DigitVal(s[Len(s)])

\* strconv.Atoi: an optional sign, then one or more decimal digits; an error
\* for anything else.
Atoi(s) ==
    LET signed == s # <<>> /\ s[1] \in {"+", "-"}
        body   == IF signed THEN Tail(s) ELSE s
    IN  IF body # <<>> /\ \A i \in 1..Len(body) : IsDigit(body[i])
        THEN [ok |-> TRUE,
              val |-> IF signed /\ s[1] = "-" THEN 0 - AtoiVal(body) ELSE AtoiVal(body)]
        ELSE [ok |-> FALSE, val |-> 0]

RECURSIVE Itoa(_)
\* strconv.Itoa for n >= 0
Itoa(n) ==
    IF n < 10 THEN <<Digits[n + 1]>>
    ELSE Itoa(n \div 10) \o <<Digits[(n % 10) + 1]>>

\* ------------------------------------------------------------------ state
VARIABLES
    service,            \* the ClientService has been constructed
    KeepLostClients,    \* repo.KeepLostClients # nil
    objs,               \* heap of client objects
    repo,               \* ClientRepository: client id -> heap index or 0
    busy,               \* PortDistributor: the busy-port snapshot
    last,               \* the call the latest step completed, and its result
    mu,                 \* s.mu: the goroutine that holds the lock, or 0
    pc                  \* where each goroutine is in its call, and its locals

vars == <<service, KeepLostClients, objs, repo, busy, last, mu, pc>>

Procs == 1..MaxProcs

NoProc == 0

\* A goroutine in a call: the statement it is at, the handler, the client
\* pointer it works on (client, existing), the old client it looked up, the
\* arguments of the call and its other locals.
At(at, op, obj, old, args, tmp) ==
    [at |-> at, op |-> op, obj |-> obj, old |-> old, args |-> args, tmp |-> tmp]

\* a goroutine that is in no call
Idle == At("idle", "none", NoClient, NoClient, <<>>, <<>>)

AllowedPorts == 1..MaxPort

NoACL == "none"

\* chshare.Remote as a client requests it: no local port (a random one is
\* wanted) or a local port string, and an optional ACL string
Random(target, acl) ==
    [Remote |-> target, LocalPort |-> <<>>, LocalPortRandom |-> FALSE, ACL |-> acl]

Explicit(target, port) ==
    [Remote |-> target, LocalPort |-> port, LocalPortRandom |-> FALSE, ACL |-> NoACL]

\* The requests: none, random and explicit ports alone and mixed in both
\* orders, the same explicit port twice, a port that is no number, a port
\* above the allowed range, ACL strings that parse and that do not.
RemoteLists ==
    LET R == Random("rA", "ok")
        E == Explicit("rB", Itoa(1))
    IN  {<<>>, <<R>>, <<E>>, <<R, R>>, <<R, E>>, <<E, R>>, <<E, E>>,
         <<R, Explicit("rB", <<"x">>)>>,
         <<R, Explicit("rB", Itoa(MaxPort + 1))>>,
         <<R, Random("rB", "bad")>>}

\* The call that the latest step completed, if it completed one: the
\* operation, the client id and object it was about, the error it returned
\* ("nil" = none), what was requested and what was returned.
Call(op, id, obj, err, req, out) ==
    [op |-> op, id |-> id, obj |-> obj, err |-> err, req |-> req, out |-> out]

NoCall == Call("none", "", NoClient, "nil", <<>>, <<>>)

\* ------------------------------------------------------------------- heap
\* The heap is a sequence of slots; it begins with MaxClients free ones.
\* a free heap slot
NoObj ==
    [ID |-> "", ClientAuthID |-> "", Tunnels |-> <<>>, DisconnectedAt |-> FALSE,
     AllowedUserGroups |-> {}, UpdatesStatus |-> "nil", Connection |-> FALSE,
     conn |-> "free"]

NoHeap == [o \in 1..MaxClients |-> NoObj]

Objects == {o \in DOMAIN objs : objs[o].conn # "free"}

FreeSlots == DOMAIN objs \ Objects

\* where the next client object is put: the first free slot, or a new slot
\* at the end of the heap
NewSlot == IF FreeSlots = {} THEN Len(objs) + 1
           ELSE CHOOSE o \in FreeSlots : \A x \in FreeSlots : o <= x

\* the heap with client object o allocated as `client`
New(heap, o, client) ==
    IF o \in DOMAIN heap THEN [heap EXCEPT ![o] = client] ELSE Append(heap, client)

\* the client pointers a goroutine holds
Refs(c) ==
    ({c.obj, c.old}
       \cup (IF c.op = "CheckClientsAccess"
             THEN {c.args[1][i] : i \in 1..Len(c.args[1])} ELSE {}))
    \ {NoClient}

\* the client pointers the goroutines f hold
Held(f) == UNION {Refs(f[q]) : q \in Procs}

\* Garbage collection: an object the repository r does not hold, that no
\* goroutine holds, and whose connection handler has returned, is referred
\* to by nothing.
CollectHeld(heap, r, held) ==
    [o \in DOMAIN heap |->
        IF /\ heap[o].conn = "handled"
           /\ \A id \in ClientIDs : r[id] # o
           /\ o \notin held
        THEN NoObj ELSE heap[o]]

Collect(heap, r, f) == CollectHeld(heap, r, Held(f))

\* One step of goroutine p: it goes on as `next`, the heap, the repository
\* and the distributor are as given, and `done` is the call the step
\* completed (NoCall if it completed none).
Frame(p, next, heap, r, pool, done) ==
    /\ pc' = [pc EXCEPT ![p] = next]
    /\ objs' = Collect(heap, r, [pc EXCEPT ![p] = next])
    /\ repo' = r
    /\ busy' = pool
    /\ last' = done
    /\ UNCHANGED <<service, KeepLostClients>>

\* p goes on with its call
Goes(p, next, heap, r, pool) == Frame(p, next, heap, r, pool, NoCall)

\* p returns from its call
Returns(p, heap, r, pool, done) == Frame(p, Idle, heap, r, pool, done)

\* p has called op and waits in s.mu.Lock()
Called(p, op) == pc[p].at = "lock" /\ pc[p].op = op

\* ------------------------------------------------------------- repository
Registered == {repo[id] : id \in ClientIDs} \ {NoClient}

GetByID(id) == IF id \in DOMAIN repo THEN repo[id] ELSE NoClient

GetAllByClientAuthID(clientAuthID) ==
    {o \in Registered : objs[o].ClientAuthID = clientAuthID}

\* Save: insert or replace by client id
Save(r, heap, o) == [r EXCEPT ![heap[o].ID] = o]

\* Delete: removes the record of the client's id
Delete(r, heap, o) == [r EXCEPT ![heap[o].ID] = NoClient]

\* ------------------------------------------------------- port distributor
\* local port of a running tunnel
TunnelPort(t) == Atoi(t.Remote.LocalPort).val

\* the tunnels that are bound: those of the clients whose connection is up
LiveTunnels(heap) ==
    UNION {{<<o, i>> : i \in 1..Len(heap[o].Tunnels)} :
              o \in {x \in DOMAIN heap : heap[x].conn = "open"}}

\* Refresh: the busy-port set recomputed from all currently live tunnels
Refresh(heap) == {TunnelPort(heap[p[1]].Tunnels[p[2]]) : p \in LiveTunnels(heap)}

IsPortAllowed(port) == port \in AllowedPorts

IsPortBusy(port, pool) == port \in pool

\* GetRandomPort: the ports it may return (any free allowed port); the port
\* returned leaves the pool of free ports
GetRandomPort(pool) == AllowedPorts \ pool

\* ---------------------------------------------------------- client entity
IsLocalSpecified(remote) == remote.LocalPort # <<>>

ParseTunnelACL(str) ==
    IF str = "bad" THEN [ok |-> FALSE, acl |-> NoACL] ELSE [ok |-> TRUE, acl |-> str]

\* Client.StartTunnel: refuses a local port the client already holds, else
\* appends the new tunnel to the client
StartTunnel(client, remote, acl) ==
    IF \E i \in 1..Len(client.Tunnels) :
          client.Tunnels[i].Remote.LocalPort = remote.LocalPort
    THEN [ok |-> FALSE, client |-> client]
    ELSE [ok |-> TRUE,
          client |-> [client EXCEPT !.Tunnels =
                         Append(@, [Remote |-> remote, ACL |-> acl])]]

\* Client.HasAccess: no restriction, or a group in common
HasAccess(client, userGroups) ==
    client.AllowedUserGroups = {} \/ client.AllowedUserGroups \cap userGroups # {}

getRemotesOf(tunnels) == [i \in 1..Len(tunnels) |-> tunnels[i].Remote]

\* the local part a remote was requested with: a random port was not
\* requested by the client
RequestedForm(remote) ==
    IF remote.LocalPortRandom
    THEN [remote EXCEPT !.LocalPort = <<>>, !.LocalPortRandom = FALSE]
    ELSE remote

\* GetTunnelsToReestablish: the old remotes that no new remote repeats, as
\* they were requested
GetTunnelsToReestablish(old, new) ==
    LET want == [i \in 1..Len(old) |-> RequestedForm(old[i])]
        keep(r) == \A j \in 1..Len(new) : new[j] # r
    IN  SelectSeq(want, keep)

\* ---------------------------------------------------------- error kinds
HTTPStatus(err) ==
    CASE err \in {"invalid_port", "port_not_allowed", "client_active", "empty_id"} -> 400
      [] err \in {"port_busy", "tunnel_conflict"} -> 409
      [] err = "not_found" -> 404
      [] err = "forbidden" -> 403
      [] OTHER -> 0

\* --------------------------------------------------------- client service
\* isClientAuthIDInUse
isClientAuthIDInUse(clientAuthID, clientID) ==
    \E s \in GetAllByClientAuthID(clientAuthID) : objs[s].ID # clientID

\* mutant: the busy check comes before the allowed check
checkLocalPort_BusyFirst(port, pool) ==
    LET localPort == Atoi(port)
    IN  IF ~localPort.ok THEN "invalid_port"
        ELSE IF IsPortBusy(localPort.val, pool) THEN "port_busy"
        ELSE IF ~IsPortAllowed(localPort.val) THEN "port_not_allowed"
        ELSE "nil"

\* checkLocalPort against the distributor's snapshot
checkLocalPort(port, pool) ==
    LET localPort == Atoi(port)
    IN  IF ~localPort.ok THEN "invalid_port"
        ELSE IF ~IsPortAllowed(localPort.val) THEN "port_not_allowed"
        ELSE IF IsPortBusy(localPort.val, pool) THEN "port_busy"
        ELSE "nil"

Outcome(err, client, pool, tunnels) ==
    [err |-> err, client |-> client, busy |-> pool, tunnels |-> tunnels]

RECURSIVE tunnelLoop(_, _, _, _)
RECURSIVE tunnelStart(_, _, _, _, _)

\* the rest of one iteration once the local port is settled: ACL, StartTunnel
tunnelStart(client, remote, rest, pool, tunnels) ==
    LET parsed == IF remote.ACL # NoACL THEN ParseTunnelACL(remote.ACL)
                  ELSE [ok |-> TRUE, acl |-> NoACL]
        started == StartTunnel(client, remote, parsed.acl)
    IN  IF ~parsed.ok THEN {Outcome("acl_parse", client, pool, <<>>)}
        ELSE IF ~started.ok THEN {Outcome("tunnel_conflict", client, pool, <<>>)}
        ELSE tunnelLoop(started.client, rest, pool,
                        Append(tunnels, started.client.Tunnels[Len(started.client.Tunnels)]))

\* the loop of startClientTunnels over the remotes, in request order
tunnelLoop(client, remotes, pool, tunnels) ==
    IF remotes = <<>> THEN {Outcome("nil", client, pool, tunnels)}
    ELSE LET remote == Head(remotes)
         IN  IF ~IsLocalSpecified(remote)
             THEN IF GetRandomPort(pool) = {}
                  THEN {Outcome("no_free_port", client, pool, <<>>)}
                  ELSE UNION {tunnelStart(client,
                                  [remote EXCEPT !.LocalPort = Itoa(port),
                                                 !.LocalPortRandom = TRUE],
                                  Tail(remotes), pool \cup {port}, tunnels) :
                              port \in GetRandomPort(pool)}
             ELSE IF checkLocalPort(remote.LocalPort, pool) # "nil"
                  THEN {Outcome(checkLocalPort(remote.LocalPort, pool), client, pool, <<>>)}
                  ELSE tunnelStart(client, remote, Tail(remotes), pool, tunnels)

\* mutant: the distributor is not refreshed before the loop
startClientTunnels_NoRefresh(client, remotes, refreshOK) ==
    IF ~refreshOK THEN {Outcome("refresh_failed", client, busy, <<>>)}
    ELSE tunnelLoop(client, remotes, busy, <<>>)

RECURSIVE Reverse(_)
Reverse(sq) == IF sq = <<>> THEN <<>> ELSE Reverse(Tail(sq)) \o <<Head(sq)>>

\* mutant: the remotes are gone through from the last to the first
startClientTunnels_Reversed(client, remotes, refreshOK) ==
    IF ~refreshOK THEN {Outcome("refresh_failed", client, busy, <<>>)}
    ELSE tunnelLoop(client, Reverse(remotes), Refresh(objs), <<>>)

\* startClientTunnels: every outcome the call can have.  refreshOK = FALSE
\* is a failing Refresh.
startClientTunnels(client, remotes, refreshOK) ==
    IF ~refreshOK THEN {Outcome("refresh_failed", client, busy, <<>>)}
    ELSE tunnelLoop(client, remotes, Refresh(objs), <<>>)

\* mutant: the id check is left out
idInUse_Never(oldClient) == FALSE

\* StartClient, lines 224-227: the client id is in use
idInUse(oldClient) == oldClient # NoClient /\ ~objs[oldClient].DisconnectedAt

\* mutant: the old tunnels are not appended to the request
remotesToStart_RequestOnly(oldClient, remotes) == remotes

\* StartClient, lines 229-234: the remotes to start; a reconnecting client
\* also gets back the tunnels of its retained record
remotesToStart(oldClient, remotes) ==
    IF oldClient # NoClient
    THEN remotes \o GetTunnelsToReestablish(getRemotesOf(objs[oldClient].Tunnels), remotes)
    ELSE remotes

\* checkLocalPort(port) called on its own, against the distributor's snapshot
CheckLocalPort(port) ==
    /\ service
    /\ last' = Call("checkLocalPort", "", NoClient, checkLocalPort(port, busy), port, <<>>)
    /\ UNCHANGED <<service, KeepLostClients, objs, repo, busy, mu, pc>>

\* the effects and the returned error of a handler, or of the part of it that
\* one step runs
Result(err, heap, r, pool, obj) ==
    [err |-> err, objs |-> heap, repo |-> r, busy |-> pool, obj |-> obj]

\* the same for a part that may go on: `at` is the statement the handler
\* goes on at, or "return"
Then(at, err, heap, r) == [at |-> at, err |-> err, objs |-> heap, repo |-> r]

\* mutant: the lock is released on the success path only
Unlock_OnSuccess(p, err) == IF err = "nil" THEN NoProc ELSE p

\* the deferred s.mu.Unlock() of a call of p that returns err: the holder of
\* the lock afterwards
Unlock(p, err) == NoProc

\* the connection of client object o ends (the peer goes away)
ConnectionLost(o) ==
    /\ objs[o].conn = "open"
    /\ objs' = [objs EXCEPT ![o].conn = "ended"]
    /\ last' = NoCall
    /\ UNCHANGED <<service, KeepLostClients, repo, busy, mu, pc>>

\* ------------------------------------------------------------ StartClient
\* The arguments: <<clientAuthID, clientID, authMultiuseCreds, req.Remotes,
\* whether the address of sshConn parses>>.  The locals kept between the
\* steps: <<the remotes to start, the UpdatesStatus read from the old client>>.

\* StartClient, lines 220-235: the old client is looked up (fail = "get": the
\* repository returns an error), the id check, the remotes to start
StartClientLookup(clientID, remotes, fail) ==
    LET oldClient == GetByID(clientID)
    IN  IF fail = "get"
        THEN [err |-> "get_failed", old |-> NoClient, remotes |-> <<>>]
        ELSE IF idInUse(oldClient)
        THEN [err |-> "id_in_use", old |-> NoClient, remotes |-> <<>>]
        ELSE [err |-> "nil", old |-> oldClient,
              remotes |-> remotesToStart(oldClient, remotes)]

\* StartClient, lines 248-281: the new client value; updatesStatus is what
\* line 280 read from the old client ("nil" without an old client)
newClient(clientAuthID, clientID, updatesStatus) ==
    [ID                |-> clientID,
     ClientAuthID      |-> clientAuthID,
     Tunnels           |-> <<>>,
     DisconnectedAt    |-> FALSE,
     AllowedUserGroups |-> {},
     UpdatesStatus     |-> updatesStatus,
     Connection        |-> TRUE,
     conn              |-> "open"]

\* mutant: the client is saved before its tunnels are started
StartClientCall_SaveFirst(clientAuthID, clientID, updatesStatus, remotes, fail) ==
    LET client == newClient(clientAuthID, clientID, updatesStatus)
        saved  == New(objs, NewSlot, client)
    IN  IF fail = "save" THEN {Result("save_failed", objs, repo, busy, NoClient)}
        ELSE {IF t.err # "nil"
              THEN Result(t.err, saved, Save(repo, saved, NewSlot), t.busy, NoClient)
              ELSE Result("nil", New(objs, NewSlot, t.client),
                          Save(repo, New(objs, NewSlot, t.client), NewSlot), t.busy, NewSlot) :
              t \in startClientTunnels(client, remotes, fail # "refresh")}

\* StartClient, lines 248-292, every result: the new client, its tunnels, the
\* Save.  fail names the collaborator that fails: "refresh", "save" or "none".
StartClientCall(clientAuthID, clientID, updatesStatus, remotes, fail) ==
    {IF t.err # "nil" THEN Result(t.err, objs, repo, t.busy, NoClient)
     ELSE IF fail = "save" THEN Result("save_failed", objs, repo, t.busy, NoClient)
     ELSE Result("nil", New(objs, NewSlot, t.client),
                 Save(repo, New(objs, NewSlot, t.client), NewSlot), t.busy, NewSlot) :
     t \in startClientTunnels(newClient(clientAuthID, clientID, updatesStatus),
                              remotes, fail # "refresh")}

\* what a StartClient call c returns: the new client obj or the error err
StartClientDone(c, obj, err) ==
    Call("StartClient", c.args[2], obj, err,
         <<c.args[1], IF err = "nil" THEN c.args[4] ELSE <<>>, c.args[3]>>, <<>>)

\* StartClient, lines 242-246, and on to the next statement that reads or
\* writes what other goroutines write: line 280 with an old client, else
\* the rest of the call
StartClientAddress(p, c) ==
    IF ~c.args[5]
    THEN /\ Returns(p, objs, repo, busy, StartClientDone(c, NoClient, "bad_address"))
         /\ mu' = Unlock(p, "bad_address")
    ELSE /\ Goes(p, [c EXCEPT !.at = IF c.old # NoClient THEN "status" ELSE "save"],
                 objs, repo, busy)
         /\ mu' = p

\* StartClient, lines 216-235: the lock is taken and the old client looked up
StartClient(p, fail) ==
    LET args == pc[p].args
        got  == StartClientLookup(args[2], args[4], fail)
        c    == At("auth", "StartClient", NoClient, got.old, args, <<got.remotes, "nil">>)
    IN  /\ Called(p, "StartClient")
        /\ mu = NoProc
        /\ IF got.err # "nil"
           THEN /\ Returns(p, objs, repo, busy, StartClientDone(c, NoClient, got.err))
                /\ mu' = Unlock(p, got.err)
           ELSE IF ~args[3]
           THEN Goes(p, c, objs, repo, busy) /\ mu' = p
           ELSE StartClientAddress(p, c)

\* StartClient, lines 237-240: the auth id is looked up
StartClientAuth(p) ==
    LET c == pc[p]
    IN  /\ c.op = "StartClient"
        /\ c.at = "auth"
        /\ mu = p
        /\ IF isClientAuthIDInUse(c.args[1], c.args[2])
           THEN /\ Returns(p, objs, repo, busy, StartClientDone(c, NoClient, "auth_in_use"))
                /\ mu' = Unlock(p, "auth_in_use")
           ELSE StartClientAddress(p, c)

\* StartClient, lines 279-281: UpdatesStatus is read from the old client
StartClientStatus(p) ==
    LET c == pc[p]
    IN  /\ c.op = "StartClient"
        /\ c.at = "status"
        /\ mu = p
        /\ Goes(p, [c EXCEPT !.at = "save", !.tmp = <<c.tmp[1], objs[c.old].UpdatesStatus>>],
                objs, repo, busy)
        /\ mu' = p

\* StartClient, lines 283-292: the tunnels are started and the client saved
StartClientSave(p, fail) ==
    LET c == pc[p]
    IN  /\ c.op = "StartClient"
        /\ c.at = "save"
        /\ mu = p
        /\ \E res \in StartClientCall(c.args[1], c.args[2], c.tmp[2], c.tmp[1], fail) :
              /\ Returns(p, res.objs, res.repo, res.busy, StartClientDone(c, res.obj, res.err))
              /\ mu' = Unlock(p, res.err)

\* ----------------------------------------------------- StartClientTunnels
\* StartClientTunnels(client, remotes) for the client object o: StartTunnel
\* appends to the client it is given, so the object changes as the loop runs
StartClientTunnelsCall(o, remotes, fail) ==
    {LET heap == [objs EXCEPT ![o] = t.client]
     IN  IF t.err # "nil" THEN Result(t.err, heap, repo, t.busy, o) @@ [out |-> <<>>]
         ELSE IF fail = "save"
         THEN Result("save_failed", heap, repo, t.busy, o) @@ [out |-> <<>>]
         ELSE Result("nil", heap, Save(repo, heap, o), t.busy, o) @@ [out |-> t.tunnels] :
     t \in startClientTunnels(objs[o], remotes, fail # "refresh")}

\* no goroutine outside the lock reads the tunnels or the distributor: the
\* call is one step
StartClientTunnels(p, fail) ==
    LET o       == pc[p].obj
        remotes == pc[p].args[1]
    IN  /\ Called(p, "StartClientTunnels")
        /\ mu = NoProc
        /\ \E res \in StartClientTunnelsCall(o, remotes, fail) :
              /\ Returns(p, res.objs, res.repo, res.busy,
                         Call("StartClientTunnels", objs[o].ID, o, res.err, remotes, res.out))
              /\ mu' = Unlock(p, res.err)

\* -------------------------------------------------------------- Terminate
\* mutant: the retention setting is not looked at
TerminateCall_AlwaysKeep(o, fail) ==
    Then("get", "nil", [objs EXCEPT ![o].DisconnectedAt = TRUE], repo)

\* Terminate, lines 385-390: without retention the record is deleted (fail =
\* "delete": the repository returns an error); else DisconnectedAt is set
TerminateCall(o, fail) ==
    IF ~KeepLostClients
    THEN IF fail = "delete" THEN Then("return", "delete_failed", objs, repo)
         ELSE Then("return", "nil", objs, Delete(repo, objs, o))
    ELSE Then("get", "nil", [objs EXCEPT ![o].DisconnectedAt = TRUE], repo)

\* mutant: the record is saved without looking it up first
TerminateGetByIDCall_NoRefetch(o, fail) == Then("save", "nil", objs, repo)

\* Terminate, lines 393-399: the record of the client's id is looked up
TerminateGetByIDCall(o, fail) ==
    IF fail = "get" THEN Then("return", "get_failed", objs, repo)
    ELSE IF GetByID(objs[o].ID) = NoClient THEN Then("return", "nil", objs, repo)
    ELSE Then("save", "nil", objs, repo)

\* Terminate, line 400
TerminateSaveCall(o, fail) ==
    IF fail = "save" THEN Then("return", "save_failed", objs, repo)
    ELSE Then("return", "nil", objs, Save(repo, objs, o))

\* the connection handler has called Terminate for its ended connection: it
\* lets go of the client
Handled(heap, o) == [heap EXCEPT ![o].conn = IF @ = "ended" THEN "handled" ELSE @]

\* a step of Terminate(client) by p for the client object o
TerminateStep(p, o, res) ==
    IF res.at = "return"
    THEN /\ Returns(p, Handled(res.objs, o), res.repo, busy,
                    Call("Terminate", objs[o].ID, o, res.err, <<>>, <<>>))
         /\ mu' = Unlock(p, res.err)
    ELSE /\ Goes(p, At(res.at, "Terminate", o, NoClient, <<>>, <<>>), res.objs, res.repo, busy)
         /\ mu' = p

Terminate(p, fail) ==
    /\ Called(p, "Terminate")
    /\ mu = NoProc
    /\ TerminateStep(p, pc[p].obj, TerminateCall(pc[p].obj, fail))

TerminateGetByID(p, fail) ==
    /\ pc[p].op = "Terminate"
    /\ pc[p].at = "get"
    /\ mu = p
    /\ TerminateStep(p, pc[p].obj, TerminateGetByIDCall(pc[p].obj, fail))

TerminateSave(p, fail) ==
    /\ pc[p].op = "Terminate"
    /\ pc[p].at = "save"
    /\ mu = p
    /\ TerminateStep(p, pc[p].obj, TerminateSaveCall(pc[p].obj, fail))

\* ------------------------------------------------------------ ForceDelete
\* Client.Close: the connection is terminated; idempotent
Close(client) == [client EXCEPT !.conn = IF @ = "open" THEN "ended" ELSE @]

\* mutant: under retention the record is kept as a disconnected one
ForceDeleteCall_Retain(o, fail) ==
    IF ~objs[o].DisconnectedAt /\ fail = "close"
    THEN Result("close_failed", objs, repo, busy, o)
    ELSE LET closed == IF ~objs[o].DisconnectedAt
                       THEN [objs EXCEPT ![o] = Close(@)] ELSE objs
             heap   == [closed EXCEPT ![o].DisconnectedAt = TRUE]
         IN  IF fail = "delete" THEN Result("delete_failed", closed, repo, busy, o)
             ELSE IF KeepLostClients THEN Result("nil", heap, Save(repo, heap, o), busy, o)
             ELSE Result("nil", closed, Delete(repo, closed, o), busy, o)

\* ForceDelete(client) for the client object o.  fail names the collaborator
\* that fails: "close" (client.Close), "delete" (repo.Delete) or "none".
ForceDeleteCall(o, fail) ==
    IF ~objs[o].DisconnectedAt /\ fail = "close"
    THEN Result("close_failed", objs, repo, busy, o)
    ELSE LET heap == IF ~objs[o].DisconnectedAt
                     THEN [objs EXCEPT ![o] = Close(@)] ELSE objs
         IN  IF fail = "delete" THEN Result("delete_failed", heap, repo, busy, o)
             ELSE Result("nil", heap, Delete(repo, heap, o), busy, o)

\* DisconnectedAt and the connection are written under the lock only, and
\* the call has one repository call: it is one step
ForceDelete(p, fail) ==
    LET o   == pc[p].obj
        res == ForceDeleteCall(o, fail)
    IN  /\ Called(p, "ForceDelete")
        /\ mu = NoProc
        /\ Returns(p, res.objs, res.repo, busy,
                   Call("ForceDelete", objs[o].ID, o, res.err, <<>>, <<>>))
        /\ mu' = Unlock(p, res.err)

\* ------------------------------------------- handlers outside the lock
\* DeleteOffline, SetACL, SetUpdatesStatus, CheckClientAccess and
\* CheckClientsAccess do not take s.mu: any step of any other goroutine may
\* fall between two of their statements.

\* getExistingByID (fail = "get": the repository returns an error)
getExistingByID(clientID, fail) ==
    IF clientID = "" THEN [err |-> "empty_id", obj |-> NoClient]
    ELSE IF fail = "get" THEN [err |-> "get_failed", obj |-> NoClient]
    ELSE IF GetByID(clientID) = NoClient THEN [err |-> "not_found", obj |-> NoClient]
    ELSE [err |-> "nil", obj |-> GetByID(clientID)]

\* the first statement of DeleteOffline, SetACL, SetUpdatesStatus and
\* CheckClientAccess: existing, err := s.getExistingByID(clientID); on an
\* error the handler returns it, else it goes on at `at`
Fetch(p, op, at, clientID, arg, fail) ==
    LET got == getExistingByID(clientID, fail)
    IN  /\ service
        /\ pc[p].at = "idle"
        /\ IF got.err # "nil"
           THEN Returns(p, objs, repo, busy, Call(op, clientID, NoClient, got.err, arg, <<>>))
           ELSE Goes(p, At(at, op, got.obj, NoClient, <<clientID, arg>>, <<>>),
                     objs, repo, busy)
        /\ UNCHANGED mu

\* p runs the statement `at` of op
Running(p, op, at) == pc[p].op = op /\ pc[p].at = at

\* what the call of p returns
Done(p, err) == Call(pc[p].op, pc[p].args[1], pc[p].obj, err, pc[p].args[2], <<>>)

\* the last statement of SetACL and SetUpdatesStatus: return s.repo.Save(existing)
SaveExisting(p, fail) ==
    /\ IF fail = "save" THEN Returns(p, objs, repo, busy, Done(p, "save_failed"))
       ELSE Returns(p, objs, Save(repo, objs, pc[p].obj), busy, Done(p, "nil"))
    /\ UNCHANGED mu

\* mutant: a connected client is deleted too
DeleteOfflineCall_NoActiveCheck(existing) == "nil"

\* DeleteOffline, lines 422-427, on the client it fetched
DeleteOfflineCall(existing) ==
    IF ~objs[existing].DisconnectedAt THEN "client_active" ELSE "nil"

\* DeleteOffline, lines 417-420
DeleteOffline(p, clientID, fail) == Fetch(p, "DeleteOffline", "check", clientID, <<>>, fail)

\* DeleteOffline, lines 422-427: DisconnectedAt is read
DeleteOfflineCheck(p) ==
    /\ Running(p, "DeleteOffline", "check")
    /\ IF DeleteOfflineCall(pc[p].obj) # "nil"
       THEN Returns(p, objs, repo, busy, Done(p, DeleteOfflineCall(pc[p].obj)))
       ELSE Goes(p, [pc[p] EXCEPT !.at = "delete"], objs, repo, busy)
    /\ UNCHANGED mu

\* DeleteOffline, line 429 (fail = "delete": the repository returns an error)
DeleteOfflineDelete(p, fail) ==
    /\ Running(p, "DeleteOffline", "delete")
    /\ IF fail = "delete" THEN Returns(p, objs, repo, busy, Done(p, "delete_failed"))
       ELSE Returns(p, objs, Delete(repo, objs, pc[p].obj), busy, Done(p, "nil"))
    /\ UNCHANGED mu

\* SetACL, lines 443-446
SetACL(p, clientID, allowedUserGroups, fail) ==
    Fetch(p, "SetACL", "write", clientID, allowedUserGroups, fail)

\* SetACL, line 448
SetACLWrite(p) ==
    /\ Running(p, "SetACL", "write")
    /\ Goes(p, [pc[p] EXCEPT !.at = "save"],
            [objs EXCEPT ![pc[p].obj].AllowedUserGroups = pc[p].args[2]], repo, busy)
    /\ UNCHANGED mu

\* SetACL, line 450
SetACLSave(p, fail) == Running(p, "SetACL", "save") /\ SaveExisting(p, fail)

\* SetUpdatesStatus, lines 454-457
SetUpdatesStatus(p, clientID, updatesStatus, fail) ==
    Fetch(p, "SetUpdatesStatus", "write", clientID, updatesStatus, fail)

\* SetUpdatesStatus, line 459
SetUpdatesStatusWrite(p) ==
    /\ Running(p, "SetUpdatesStatus", "write")
    /\ Goes(p, [pc[p] EXCEPT !.at = "save"],
            [objs EXCEPT ![pc[p].obj].UpdatesStatus = pc[p].args[2]], repo, busy)
    /\ UNCHANGED mu

\* SetUpdatesStatus, line 461
SetUpdatesStatusSave(p, fail) == Running(p, "SetUpdatesStatus", "save") /\ SaveExisting(p, fail)

\* a user: clients.User with IsAdmin and GetGroups
Users == [admin : {FALSE}, groups : SUBSET Groups] \cup [admin : {TRUE}, groups : {{}}]

\* mutant: only the first client without access is noted
clientsWithNoAccess_First(curClient, user, ids) ==
    IF ~HasAccess(objs[curClient], user.groups) /\ ids = <<>>
    THEN Append(ids, objs[curClient].ID)
    ELSE ids

\* CheckClientsAccess, lines 484-486, one iteration of the loop: the list
\* clientsWithNoAccess after curClient
clientsWithNoAccess(curClient, user, ids) ==
    IF ~HasAccess(objs[curClient], user.groups)
    THEN Append(ids, objs[curClient].ID)
    ELSE ids

\* CheckClientsAccess, lines 489-496: the error for the ids collected
CheckClientsAccessCall(ids) == IF Len(ids) > 0 THEN "forbidden" ELSE "nil"

\* The loop of CheckClientsAccess reads one client in each step.  The call
\* keeps <<number of clients read, clientsWithNoAccess, what HasAccess was of
\* each client when it was read>>; the result names the clients, the user
\* and what was read, and returns the ids.
CheckClientsAccessRead(p, c) ==
    LET clients == c.args[1]
        user    == c.args[2]
        i       == c.tmp[1] + 1
        ids     == clientsWithNoAccess(clients[i], user, c.tmp[2])
        seen    == Append(c.tmp[3], HasAccess(objs[clients[i]], user.groups))
    IN  /\ IF i = Len(clients)
           THEN Returns(p, objs, repo, busy,
                        Call(c.op, c.tmp[4], c.obj, CheckClientsAccessCall(ids),
                             <<clients, user, seen>>, ids))
           ELSE Goes(p, [c EXCEPT !.at = "loop", !.tmp = <<i, ids, seen, c.tmp[4]>>],
                     objs, repo, busy)
        /\ UNCHANGED mu

\* CheckClientsAccess(clients, user), lines 478-487 up to the first client
CheckClientsAccess(p, clients, user) ==
    /\ service
    /\ pc[p].at = "idle"
    /\ IF user.admin \/ clients = <<>>
       THEN /\ Returns(p, objs, repo, busy,
                       Call("CheckClientsAccess", "", NoClient, "nil",
                            <<clients, user, <<>> >>, <<>>))
            /\ UNCHANGED mu
       ELSE CheckClientsAccessRead(p, At("loop", "CheckClientsAccess", NoClient, NoClient,
                                        <<clients, user>>, <<0, <<>>, <<>>, "">>))

\* CheckClientsAccess, lines 483-487, the next client
CheckClientsAccessLoop(p) ==
    /\ pc[p].op \in {"CheckClientsAccess", "CheckClientAccess"}
    /\ pc[p].at = "loop"
    /\ CheckClientsAccessRead(p, pc[p])

\* CheckClientAccess(clientID, user), lines 467-472: the client is fetched;
\* for an admin CheckClientsAccess returns before it reads the client
CheckClientAccess(p, clientID, user, fail) ==
    LET got == getExistingByID(clientID, fail)
    IN  /\ service
        /\ pc[p].at = "idle"
        /\ IF got.err # "nil" \/ user.admin
           THEN Returns(p, objs, repo, busy,
                        Call("CheckClientAccess", clientID, got.obj, got.err,
                             <<(<<>>), user, <<>> >>, <<>>))
           ELSE Goes(p, At("loop", "CheckClientAccess", got.obj, NoClient,
                           <<(<<got.obj>>), user>>, <<0, <<>>, <<>>, clientID>>),
                     objs, repo, busy)
        /\ UNCHANGED mu

\* ----------------------------------------------------------- construction
\* A ClientRepository as the service is given it: the retention setting and
\* the clients it holds, one to an id.
Repository(keepLostClients, clients) ==
    [KeepLostClients |-> keepLostClients, clients |-> clients]

\* a client that the repository kept from an earlier run: it is disconnected
\* and has no connection
lostClient(clientAuthID, clientID, allowedUserGroups) ==
    [ID                |-> clientID,
     ClientAuthID      |-> clientAuthID,
     Tunnels           |-> <<>>,
     DisconnectedAt    |-> TRUE,
     AllowedUserGroups |-> allowedUserGroups,
     UpdatesStatus     |-> "nil",
     Connection        |-> FALSE,
     conn              |-> "handled"]

\* the heap with the clients of repository r
HeapOf(r) == r.clients \o SubSeq(NoHeap, Len(r.clients) + 1, MaxClients)

\* the record that repository r has of each client id
IndexOf(r) ==
    [id \in ClientIDs |->
        IF \E o \in DOMAIN r.clients : r.clients[o].ID = id
        THEN CHOOSE o \in DOMAIN r.clients : r.clients[o].ID = id
        ELSE NoClient]

\* &ClientService{portDistributor: portDistributor, repo: repo}, returned by
\* the constructor op
Construct(op, portDistributor, r) ==
    /\ service' = TRUE
    /\ KeepLostClients' = r.KeepLostClients
    /\ objs' = HeapOf(r)
    /\ repo' = IndexOf(r)
    /\ busy' = portDistributor
    /\ last' = Call(op, "", NoClient, "nil", <<>>, <<>>)
    /\ UNCHANGED <<mu, pc>>

\* NewClientService(portDistributor, repo), lines 124-132; the service of a
\* behaviour is constructed once
NewClientService(portDistributor, r) ==
    /\ ~service
    /\ Construct("NewClientService", portDistributor, r)

\* InitClientService, lines 134-150: r is the repository that
\* InitClientRepository returns (fail = "init": it returns an error, and no
\* service is constructed)
InitClientService(portDistributor, r, fail) ==
    /\ ~service
    /\ IF fail = "init"
       THEN /\ last' = Call("InitClientService", "", NoClient, "init_failed", <<>>, <<>>)
            /\ UNCHANGED <<service, KeepLostClients, objs, repo, busy, mu, pc>>
       ELSE Construct("InitClientService", portDistributor, r)

\* ---------------------------------------------------------- package query
\* Query strings are sequences of one-character strings.
Lower ==
    <<"a", "b", "c", "d", "e", "f", "g", "h", "i", "j", "k", "l", "m",
      "n", "o", "p", "q", "r", "s", "t", "u", "v", "w", "x", "y", "z">>

Upper ==
    <<"A", "B", "C", "D", "E", "F", "G", "H", "I", "J", "K", "L", "M",
      "N", "O", "P", "Q", "R", "S", "T", "U", "V", "W", "X", "Y", "Z">>

\* strings.ToUpper
ToUpper(str) ==
    [i \in 1..Len(str) |->
        IF \E k \in 1..Len(Lower) : Lower[k] = str[i]
        THEN Upper[CHOOSE k \in 1..Len(Lower) : Lower[k] = str[i]]
        ELSE str[i]]

\* strings.Contains
Contains(str, substr) ==
    \E i \in 1..(Len(str) + 1) :
        /\ i + Len(substr) - 1 <= Len(str)
        /\ SubSeq(str, i, i + Len(substr) - 1) = substr

RECURSIVE Join(_, _)
\* strings.Join
Join(elems, sep) ==
    IF elems = <<>> THEN <<>>
    ELSE IF Len(elems) = 1 THEN elems[1]
    ELSE elems[1] \o sep \o Join(Tail(elems), sep)

StrWhere == <<" ", "W", "H", "E", "R", "E", " ">>

StrAnd == <<" ", "A", "N", "D", " ">>

StrOr == <<" ", "O", "R", " ">>

\* FilterOption: a column, an operator (by its code) and the values; a limit
\* filter is told apart by IsLimitFilter
FilterOption(column, code, values, limit) ==
    [Column |-> column, Operator |-> code, Values |-> values, Limit |-> limit]

IsLimitFilter(fo) == fo.Limit

\* fmt.Sprintf("%s %s ?", column, operator code)
Condition(fo) == fo.Column \o <<" ">> \o fo.Operator \o <<" ", "?">>

RECURSIVE whereLoop(_, _, _)
\* addWhere, lines 33-49: the conditions and the parameters of the filters
\* that are no limit filters
whereLoop(filterOptions, whereParts, params) ==
    IF filterOptions = <<>> THEN [whereParts |-> whereParts, params |-> params]
    ELSE LET fo == Head(filterOptions)
         IN  IF IsLimitFilter(fo) THEN whereLoop(Tail(filterOptions), whereParts, params)
             ELSE IF Len(fo.Values) = 1
             THEN whereLoop(Tail(filterOptions), Append(whereParts, Condition(fo)),
                            Append(params, fo.Values[1]))
             ELSE whereLoop(Tail(filterOptions),
                            Append(whereParts,
                                   <<"(">> \o Join([y \in 1..Len(fo.Values) |-> Condition(fo)],
                                                  StrOr) \o <<")">>),
                            params \o fo.Values)

\* addWhere(filterOptions, q, params)
addWhere(filterOptions, q, params) ==
    IF Len(filterOptions) = 0 THEN [q |-> q, params |-> params]
    ELSE LET loop   == whereLoop(filterOptions, <<>>, params)
             concat == IF Contains(ToUpper(q), StrWhere) THEN StrAnd ELSE StrWhere
         IN  [q |-> q \o concat \o Join(loop.whereParts, StrAnd), params |-> loop.params]

\* strings.HasPrefix
HasPrefix(str, prefix) ==
    Len(prefix) <= Len(str) /\ SubSeq(str, 1, Len(prefix)) = prefix

\* strings.Replace(str, old, new, 1) for a string `old` of one character: the
\* first occurrence is replaced, if there is one
ReplaceFirst(str, old, new) ==
    IF \E i \in 1..Len(str) : str[i] = old
    THEN LET i == CHOOSE k \in 1..Len(str) :
                     str[k] = old /\ \A j \in 1..(k - 1) : str[j] # old
         IN  SubSeq(str, 1, i - 1) \o new \o SubSeq(str, i + 1, Len(str))
    ELSE str

StrOrderBy == <<" ", "O", "R", "D", "E", "R", " ", "B", "Y", " ">>

StrComma == <<",", " ">>

StrSelectStar == <<"S", "E", "L", "E", "C", "T", " ", "*", " ">>

StrLimitOffset ==
    <<" ", "L", "I", "M", "I", "T", " ", "?", " ", "O", "F", "F", "S", "E", "T", " ", "?">>

\* SortOption: a column and the direction
SortOption(column, isASC) == [Column |-> column, IsASC |-> isASC]

\* FieldsOption: a resource and the fields of it to select
FieldsOption(resource, fields) == [Resource |-> resource, Fields |-> fields]

\* *Pagination: nil, or a limit and an offset
Pagination(limit, offset) == [nil |-> FALSE, Limit |-> limit, Offset |-> offset]

NoPagination == [nil |-> TRUE, Limit |-> "", Offset |-> ""]

\* ListOptions
ListOptions(filters, sorts, fields, pagination) ==
    [Filters |-> filters, Sorts |-> sorts, Fields |-> fields, Pagination |-> pagination]

\* addOrderBy(sortOptions, q), lines 73-90
addOrderBy(sortOptions, q) ==
    IF Len(sortOptions) = 0 THEN q
    ELSE LET orderByValues ==
                 [i \in 1..Len(sortOptions) |->
                     sortOptions[i].Column \o <<" ">>
                        \o (IF sortOptions[i].IsASC THEN <<"A", "S", "C">>
                            ELSE <<"D", "E", "S", "C">>)]
         IN  q \o StrOrderBy \o Join(orderByValues, StrComma)

RECURSIVE selectFields(_)
\* ReplaceStarSelect, lines 100-105: "resource.field" for each field of each
\* option
selectFields(fieldOptions) ==
    IF fieldOptions = <<>> THEN <<>>
    ELSE LET fo == Head(fieldOptions)
         IN  [i \in 1..Len(fo.Fields) |-> fo.Resource \o <<".">> \o fo.Fields[i]]
                \o selectFields(Tail(fieldOptions))

\* ReplaceStarSelect(fieldOptions, q), lines 92-108
ReplaceStarSelect(fieldOptions, q) ==
    IF ~HasPrefix(ToUpper(q), StrSelectStar) THEN q
    ELSE IF Len(fieldOptions) = 0 THEN q
    ELSE ReplaceFirst(q, "*", Join(selectFields(fieldOptions), StrComma))

\* addLimitOffset(pagination, q, params), lines 110-119
addLimitOffset(pagination, q, params) ==
    IF pagination.nil THEN [q |-> q, params |-> params]
    ELSE [q |-> q \o StrLimitOffset,
          params |-> params \o <<pagination.Limit, pagination.Offset>>]

\* AppendOptionsToQuery(o, q, params), lines 18-25
AppendOptionsToQueryCall(o, q, params) ==
    LET where   == addWhere(o.Filters, q, params)
        ordered == addOrderBy(o.Sorts, where.q)
        fields  == ReplaceStarSelect(o.Fields, ordered)
    IN  addLimitOffset(o.Pagination, fields, where.params)


\* addWhere applied to its arguments
AddWhere(filterOptions, q, params) ==
    /\ last' = Call("addWhere", "", NoClient, "nil", <<filterOptions, q, params>>,
                    addWhere(filterOptions, q, params))
    /\ UNCHANGED <<service, KeepLostClients, objs, repo, busy, mu, pc>>

\* a call of AppendOptionsToQuery(o, q, params)
AppendOptionsToQuery(o, q, params) ==
    /\ last' = Call("AppendOptionsToQuery", "", NoClient, "nil", <<o, q, params>>,
                    AppendOptionsToQueryCall(o, q, params))
    /\ UNCHANGED <<service, KeepLostClients, objs, repo, busy, mu, pc>>
\* ------------------------------------------------------- the service lock
\* StartClient, StartClientTunnels, Terminate and ForceDelete begin with
\* s.mu.Lock() and defer s.mu.Unlock().  A goroutine that has made such a
\* call is at "lock" until s.mu.Lock() returns.

\* goroutine p calls the handler op of the service, for the client pointer
\* obj and with the arguments args, and waits for the lock
Begin(p, op, obj, args) ==
    /\ service
    /\ pc[p].at = "idle"
    /\ pc' = [pc EXCEPT ![p] = At("lock", op, obj, NoClient, args, <<>>)]
    /\ last' = NoCall
    /\ UNCHANGED <<service, KeepLostClients, objs, repo, busy, mu>>

\* s.mu.Lock() returns in p, which runs the handler up to its first access
\* to what other goroutines write
Lock(p, fail) ==
    \/ StartClient(p, fail)
    \/ StartClientTunnels(p, fail)
    \/ Terminate(p, fail)
    \/ ForceDelete(p, fail)

\* p, holding the lock, runs the next part of its handler
Body(p, fail) ==
    \/ StartClientAuth(p)
    \/ StartClientStatus(p)
    \/ StartClientSave(p, fail)
    \/ TerminateGetByID(p, fail)
    \/ TerminateSave(p, fail)

\* ------------------------------------------------------------ client groups
\* the characters of the client ids, in byte order
Alphabet == Digits \o <<"c">>

ByteOf(ch) == CHOOSE b \in 1..Len(Alphabet) : Alphabet[b] = ch

\* the bytes of a client id
Bytes(id) == IF id = "c1" THEN <<"c", "1">>
             ELSE IF id = "c2" THEN <<"c", "2">>
             ELSE <<>>

RECURSIVE BytesLess(_, _)
\* a < b for strings: bytewise, a proper prefix is smaller
BytesLess(a, b) ==
    IF b = <<>> THEN FALSE
    ELSE IF a = <<>> THEN TRUE
    ELSE IF ByteOf(Head(a)) # ByteOf(Head(b)) THEN ByteOf(Head(a)) < ByteOf(Head(b))
    ELSE BytesLess(Tail(a), Tail(b))

StrLess(a, b) == BytesLess(Bytes(a), Bytes(b))

RECURSIVE Insert(_, _)
Insert(x, sorted) ==
    IF sorted = <<>> THEN <<x>>
    ELSE IF StrLess(x, Head(sorted)) THEN <<x>> \o sorted
    ELSE <<Head(sorted)>> \o Insert(x, Tail(sorted))

RECURSIVE SortStrings(_)
\* sort.Strings: the strings in increasing order
SortStrings(strs) ==
    IF strs = <<>> THEN <<>> ELSE Insert(Head(strs), SortStrings(Tail(strs)))

\* cgroups.ClientGroup: its id, the clients its rule matches, and the list of
\* member ids to fill in
ClientGroup(id, matches) == [ID |-> id, Matches |-> matches, ClientIDs |-> <<>>]

\* Client.BelongsTo(group)
BelongsTo(client, group) == client.ID \in group.Matches

\* the clients the user may see
UserClients(user) ==
    {o \in Registered : user.admin \/ HasAccess(objs[o], user.groups)}

\* ClientRepository.GetUserClients(user, nil): the clients the user may see,
\* in any order; no clients, with the error, when the lookup fails
GetUserClients(user, fail) ==
    IF fail = "get" THEN {<<>>}
    ELSE {all \in [1..Cardinality(UserClients(user)) -> UserClients(user)] :
             \A i, j \in 1..Len(all) : i # j => all[i] # all[j]}

RECURSIVE appendClients(_, _)
\* PopulateGroupsWithUserClients, lines 188-194: each client in turn is
\* appended to every group it belongs to
appendClients(all, groups) ==
    IF all = <<>> THEN groups
    ELSE appendClients(Tail(all),
             [g \in 1..Len(groups) |->
                 IF BelongsTo(objs[Head(all)], groups[g])
                 THEN [groups[g] EXCEPT !.ClientIDs = Append(@, objs[Head(all)].ID)]
                 ELSE groups[g]])

\* PopulateGroupsWithUserClients on the clients `all` the repository returned
PopulateGroupsCall(all, groups) ==
    LET filled == appendClients(all, groups)
    IN  [g \in 1..Len(groups) |->
            [filled[g] EXCEPT !.ClientIDs = SortStrings(@)]]

\* GetUserClients is the one access to what other goroutines write: the call
\* is one step.  Line 187 drops the error of GetUserClients and the loops run
\* on the clients it returned.
PopulateGroupsWithUserClients(groups, user, fail) ==
    \E all \in GetUserClients(user, fail) :
        /\ service
        /\ last' = Call("PopulateGroups", "", NoClient, "nil", <<groups, user, all>>,
                        PopulateGroupsCall(all, groups))
        /\ UNCHANGED <<service, KeepLostClients, objs, repo, busy, mu, pc>>
\* ---------------------------------------------------------- specification
\* before the service is constructed there are no clients and no calls
Init ==
    /\ service = FALSE
    /\ KeepLostClients = FALSE
    /\ objs = NoHeap
    /\ repo = [id \in ClientIDs |-> NoClient]
    /\ busy = {}
    /\ last = NoCall
    /\ mu = NoProc
    /\ pc = [p \in Procs |-> Idle]

\* the registered clients that are connected
Active == {o \in Registered : ~objs[o].DisconnectedAt}

\* the record of client id is connected
Connected(id) == GetByID(id) # NoClient /\ ~objs[GetByID(id)].DisconnectedAt

\* the goroutines in a call of op
Calling(op) == {q \in Procs : pc[q].op = op}

\* The connection handler of a client calls Terminate once its connection
\* has ended, once for each connection.
Ended(o) ==
    /\ objs[o].conn = "ended"
    /\ \A q \in Calling("Terminate") : pc[q].obj # o

\* The bound on the client objects: an agent connects only while the client
\* objects alive and those of the registrations under way are fewer than
\* MaxClients.
Room == Cardinality(Objects) + Cardinality(Calling("StartClient")) < MaxClients

\* The repositories a service is put over, with the retention settings
\* given: an empty one, one that kept the record of c1 from an earlier run,
\* and with `active` one that holds c2 connected.
Repositories(retention, groups, active) ==
    {Repository(k, cs) :
        k \in retention,
        cs \in {<<>>, <<lostClient("a1", "c1", groups)>>}
               \cup (IF active THEN {<<newClient("a1", "c2", "nil")>>} ELSE {})}

\* The registry: registration without tunnels, termination and removal, by
\* concurrent goroutines, with each repository call failing or not.
\* The agents that connect: c1 and c2 with the same credentials, which are
\* for one client only or not, one agent whose address does not parse, and
\* c2 with credentials of its own.
Agents ==
    {<<"a1", "c1", FALSE, <<>>, TRUE>>, <<"a1", "c2", FALSE, <<>>, TRUE>>,
     <<"a1", "c1", TRUE, <<>>, TRUE>>, <<"a1", "c2", TRUE, <<>>, FALSE>>,
     <<"a2", "c2", FALSE, <<>>, TRUE>>}

Next ==
    \/ \E r \in Repositories(BOOLEAN, {}, TRUE) : NewClientService({}, r)
    \/ \E r \in Repositories(BOOLEAN, {}, FALSE), f \in {"none", "init"} :
          InitClientService({}, r, f)
    \/ \E p \in Procs, a \in Agents : Room /\ Begin(p, "StartClient", NoClient, a)
    \/ \E p \in Procs, f \in {"none", "get"} : StartClient(p, f)
    \/ \E p \in Procs : StartClientAuth(p)
    \/ \E p \in Procs : StartClientStatus(p)
    \/ \E p \in Procs, f \in {"none", "save"} : StartClientSave(p, f)
    \/ \E o \in Objects : ConnectionLost(o)
    \/ \E p \in Procs, o \in Objects : Ended(o) /\ Begin(p, "Terminate", o, <<>>)
    \/ \E p \in Procs, f \in {"none", "delete"} : Terminate(p, f)
    \/ \E p \in Procs, f \in {"none", "get"} : TerminateGetByID(p, f)
    \/ \E p \in Procs, f \in {"none", "save"} : TerminateSave(p, f)
    \/ \E p \in Procs, o \in Registered : Begin(p, "ForceDelete", o, <<>>)
    \/ \E p \in Procs, f \in {"none", "close", "delete"} : ForceDelete(p, f)

Spec == Init /\ [][Next]_vars

\* Removal of offline clients, against registration and termination, under
\* either retention setting.
NextOffline ==
    \/ \E r \in Repositories(BOOLEAN, {}, FALSE) : NewClientService({}, r)
    \/ \E r \in Repositories(BOOLEAN, {}, FALSE), f \in {"none", "init"} :
          InitClientService({}, r, f)
    \/ \E p \in Procs, id \in ClientIDs :
          Room /\ Begin(p, "StartClient", NoClient, <<"a1", id, TRUE, <<>>, TRUE>>)
    \/ \E p \in Procs : StartClient(p, "none")
    \/ \E p \in Procs : StartClientStatus(p)
    \/ \E p \in Procs : StartClientSave(p, "none")
    \/ \E o \in Objects : ConnectionLost(o)
    \/ \E p \in Procs, o \in Objects : Ended(o) /\ Begin(p, "Terminate", o, <<>>)
    \/ \E p \in Procs : Terminate(p, "none")
    \/ \E p \in Procs : TerminateGetByID(p, "none")
    \/ \E p \in Procs : TerminateSave(p, "none")
    \/ \E p \in Procs, id \in ClientIDs \cup {""}, f \in {"none", "get"} : DeleteOffline(p, id, f)
    \/ \E p \in Procs : DeleteOfflineCheck(p)
    \/ \E p \in Procs, f \in {"none", "delete"} : DeleteOfflineDelete(p, f)

SpecOffline == Init /\ [][NextOffline]_vars

\* Registration with tunnels: agents that connect, lose the connection and
\* connect again, with every request of a registration and every way a
\* registration fails.
\* the requests of a registration: none, one remote of either kind, and two
\* remotes of which the second fails
Registrations ==
    {rs \in RemoteLists : Len(rs) <= 1}
    \cup {<<Random("rA", "ok"), Explicit("rB", <<"x">>)>>}

\* every request is made with its collaborators working, and one request
\* with each collaborator failing
MayFail(p, f) ==
    \/ f = "none"
    \/ /\ pc[p].op = "StartClient"
       /\ pc[p].args[4] = <<Random("rA", "ok")>>
    \/ /\ pc[p].op = "StartClientTunnels"
       /\ pc[p].args[1] = <<Random("rA", "ok")>>

\* the agents that connect: c1 and c2 with every request, c2 with
\* credentials that are for one client only, and c2 from an address that
\* does not parse
Connecting ==
    {<<"a1", id, TRUE, rs, TRUE>> : id \in ClientIDs, rs \in Registrations}
    \cup {<<"a1", "c2", FALSE, <<>>, TRUE>>, <<"a1", "c2", TRUE, <<>>, FALSE>>}

NextReconnect ==
    \/ \E r \in Repositories({TRUE}, {}, FALSE) : NewClientService({}, r)
    \/ \E r \in Repositories({TRUE}, {}, FALSE), f \in {"none", "init"} :
          InitClientService({}, r, f)
    \/ \E p \in Procs, a \in Connecting : Room /\ Begin(p, "StartClient", NoClient, a)
    \/ \E p \in Procs, f \in {"none", "get"} : StartClient(p, f)
    \/ \E p \in Procs : StartClientAuth(p)
    \/ \E p \in Procs : StartClientStatus(p)
    \/ \E p \in Procs, f \in {"none", "refresh", "save"} :
          MayFail(p, f) /\ StartClientSave(p, f)
    \/ \E o \in Objects : ConnectionLost(o)
    \/ \E p \in Procs, o \in Objects : Ended(o) /\ Begin(p, "Terminate", o, <<>>)
    \/ \E p \in Procs : Terminate(p, "none")
    \/ \E p \in Procs : TerminateGetByID(p, "none")
    \/ \E p \in Procs : TerminateSave(p, "none")

SpecReconnect == Init /\ [][NextReconnect]_vars

\* Tunnels: each agent connects once, with tunnels, under an id that has
\* no record or a record kept from an earlier run; the connection of c1 may
\* end; tunnels are added with every request, one call at a time.
\* the requests of a registration in this workload
FirstRemotes ==
    {<<>>, <<Explicit("rB", Itoa(1))>>, <<Random("rA", "ok"), Explicit("rB", Itoa(1))>>}

\* the id has not been connected under since the service was constructed
Fresh(id) == IF GetByID(id) = NoClient THEN TRUE ELSE ~objs[GetByID(id)].Connection

NextTunnels ==
    \/ \E r \in Repositories({TRUE}, {}, FALSE) : NewClientService({}, r)
    \/ \E r \in Repositories({TRUE}, {}, FALSE), f \in {"none", "init"} :
          InitClientService({}, r, f)
    \/ \E p \in Procs, id \in ClientIDs, rs \in FirstRemotes :
          /\ Room
          /\ Fresh(id)
          /\ Begin(p, "StartClient", NoClient, <<"a1", id, TRUE, rs, TRUE>>)
    \/ \E p \in Procs : StartClient(p, "none")
    \/ \E p \in Procs : StartClientStatus(p)
    \/ \E p \in Procs : StartClientSave(p, "none")
    \/ \E p \in Procs, o \in Active, rs \in RemoteLists :
          /\ Calling("StartClientTunnels") = {}
          /\ Begin(p, "StartClientTunnels", o, <<rs>>)
    \/ \E p \in Procs, f \in {"none", "refresh", "save"} :
          MayFail(p, f) /\ StartClientTunnels(p, f)
    \/ \E o \in Objects : objs[o].ID = "c1" /\ ConnectionLost(o)
    \/ \E p \in Procs, o \in Objects : Ended(o) /\ Begin(p, "Terminate", o, <<>>)
    \/ \E p \in Procs : Terminate(p, "none")
    \/ \E p \in Procs : TerminateGetByID(p, "none")
    \/ \E p \in Procs : TerminateSave(p, "none")

SpecTunnels == Init /\ [][NextTunnels]_vars

\* Updates of the ACL of a client outside the service lock, against
\* registration, termination and removal, under retention.
\* the client the operators work on
Updated == {"c1"}

NextUpdates ==
    \/ \E r \in Repositories({TRUE}, {"G1"}, FALSE) : NewClientService({}, r)
    \/ \E r \in Repositories({TRUE}, {"G1"}, FALSE), f \in {"none", "init"} :
          InitClientService({}, r, f)
    \/ \E p \in Procs, id \in Updated :
          Room /\ Begin(p, "StartClient", NoClient, <<"a1", id, TRUE, <<>>, TRUE>>)
    \/ \E p \in Procs : StartClient(p, "none")
    \/ \E p \in Procs : StartClientStatus(p)
    \/ \E p \in Procs : StartClientSave(p, "none")
    \/ \E o \in Objects : ConnectionLost(o)
    \/ \E p \in Procs, o \in Objects : Ended(o) /\ Begin(p, "Terminate", o, <<>>)
    \/ \E p \in Procs : Terminate(p, "none")
    \/ \E p \in Procs : TerminateGetByID(p, "none")
    \/ \E p \in Procs : TerminateSave(p, "none")
    \/ \E p \in Procs, o \in Registered : Begin(p, "ForceDelete", o, <<>>)
    \/ \E p \in Procs : ForceDelete(p, "none")
    \/ \E p \in Procs, id \in Updated, g \in {{}, {"G2"}} : SetACL(p, id, g, "none")
    \/ \E p \in Procs : SetACLWrite(p)
    \/ \E p \in Procs, f \in {"none", "save"} : SetACLSave(p, f)

SpecUpdates == Init /\ [][NextUpdates]_vars

\* Updates of the update status of a client outside the service lock,
\* against registration and termination, under retention.
NextStatus ==
    \/ \E r \in Repositories({TRUE}, {}, FALSE) : NewClientService({}, r)
    \/ \E r \in Repositories({TRUE}, {}, FALSE), f \in {"none", "init"} :
          InitClientService({}, r, f)
    \/ \E p \in Procs, id \in Updated :
          Room /\ Begin(p, "StartClient", NoClient, <<"a1", id, TRUE, <<>>, TRUE>>)
    \/ \E p \in Procs : StartClient(p, "none")
    \/ \E p \in Procs : StartClientStatus(p)
    \/ \E p \in Procs : StartClientSave(p, "none")
    \/ \E o \in Objects : ConnectionLost(o)
    \/ \E p \in Procs, o \in Objects : Ended(o) /\ Begin(p, "Terminate", o, <<>>)
    \/ \E p \in Procs : Terminate(p, "none")
    \/ \E p \in Procs : TerminateGetByID(p, "none")
    \/ \E p \in Procs : TerminateSave(p, "none")
    \/ \E p \in Procs, id \in Updated \cup {""}, f \in {"none", "get"} :
          SetUpdatesStatus(p, id, "u1", f)
    \/ \E p \in Procs : SetUpdatesStatusWrite(p)
    \/ \E p \in Procs, f \in {"none", "save"} : SetUpdatesStatusSave(p, f)

SpecStatus == Init /\ [][NextStatus]_vars

\* Access checks: each agent connects once; the clients registered and
\* kept from an earlier run are restricted by SetACL and checked singly
\* and in lists for every user, while SetACL runs.  Checks only read, so
\* two of them do not affect each other: one list is checked at a time,
\* against the updates of the other goroutines.
ClientLists ==
    {<<>>} \cup {<<o>> : o \in Objects}
    \cup {c \in Objects \X Objects : c[1] # c[2]}

NextAccess ==
    \/ \E r \in Repositories({TRUE}, {"G1"}, FALSE) : NewClientService({}, r)
    \/ \E r \in Repositories({TRUE}, {"G1"}, FALSE), f \in {"none", "init"} :
          InitClientService({}, r, f)
    \/ \E p \in Procs, id \in ClientIDs :
          /\ Room
          /\ GetByID(id) = NoClient
          /\ Begin(p, "StartClient", NoClient, <<"a1", id, TRUE, <<>>, TRUE>>)
    \/ \E p \in Procs : StartClient(p, "none")
    \/ \E p \in Procs : StartClientSave(p, "none")
    \/ \E p \in Procs, id \in ClientIDs \cup {""}, g \in {{"G1"}, {"G2"}}, f \in {"none", "get"} :
          SetACL(p, id, g, f)
    \/ \E p \in Procs : SetACLWrite(p)
    \/ \E p \in Procs : SetACLSave(p, "none")
    \/ \E p \in Procs, cl \in ClientLists, u \in Users :
          /\ Calling("CheckClientsAccess") = {}
          /\ CheckClientsAccess(p, cl, u)
    \/ \E p \in Procs, id \in ClientIDs \cup {""}, u \in Users, f \in {"none", "get"} :
          /\ Calling("CheckClientAccess") = {}
          /\ CheckClientAccess(p, id, u, f)
    \/ \E p \in Procs : CheckClientsAccessLoop(p)

SpecAccess == Init /\ [][NextAccess]_vars

\* Client groups filled for a user: each agent connects once; the clients
\* registered and kept from an earlier run are restricted by SetACL, and
\* the groups match both clients, one and none.
GroupLists ==
    LET both == ClientGroup("gA", {"c1", "c2"})
        one  == ClientGroup("gB", {"c2"})
        none == ClientGroup("gC", {})
    IN  {<<>>, <<both>>, <<one, both>>, <<both, none>>}

NextGroups ==
    \/ \E r \in Repositories({TRUE}, {"G1"}, FALSE) : NewClientService({}, r)
    \/ \E r \in Repositories({TRUE}, {"G1"}, FALSE), f \in {"none", "init"} :
          InitClientService({}, r, f)
    \/ \E p \in Procs, id \in ClientIDs :
          /\ Room
          /\ GetByID(id) = NoClient
          /\ Begin(p, "StartClient", NoClient, <<"a1", id, TRUE, <<>>, TRUE>>)
    \/ \E p \in Procs : StartClient(p, "none")
    \/ \E p \in Procs : StartClientSave(p, "none")
    \/ \E p \in Procs, id \in ClientIDs, g \in {{}, {"G1"}} : SetACL(p, id, g, "none")
    \/ \E p \in Procs : SetACLWrite(p)
    \/ \E p \in Procs : SetACLSave(p, "none")
    \/ \E gs \in GroupLists, u \in Users, f \in {"none", "get"} :
          PopulateGroupsWithUserClients(gs, u, f)

SpecGroups == Init /\ [][NextGroups]_vars

\* Validation of local ports: checkLocalPort on every kind of port string,
\* against every snapshot the distributor may hold when the service is put
\* over it.
PortStrings ==
    {<<>>, <<"x">>, <<"1", "x">>, <<"-">>, <<"-", "1">>, <<"+", "1">>, <<"0", "1">>}
    \cup {Itoa(n) : n \in 0..(MaxPort + 1)}

Snapshots == SUBSET (0..(MaxPort + 1))

NextPorts ==
    \/ \E pool \in Snapshots, r \in Repositories({TRUE}, {}, FALSE) : NewClientService(pool, r)
    \/ \E pool \in Snapshots, r \in Repositories({TRUE}, {}, FALSE), f \in {"none", "init"} :
          InitClientService(pool, r, f)
    \/ \E port \in PortStrings : CheckLocalPort(port)

SpecPorts == Init /\ [][NextPorts]_vars

\* Calls under the service lock by concurrent goroutines, under retention:
\* registrations that succeed and that fail at each step, added tunnels,
\* terminations by the connection handlers and forced deletes.
NextLock ==
    \/ \E r \in Repositories({TRUE}, {}, FALSE) : NewClientService({}, r)
    \/ \E r \in Repositories({TRUE}, {}, FALSE), f \in {"none", "init"} :
          InitClientService({}, r, f)
    \/ \E p \in Procs, id \in {"c1"}, a \in BOOLEAN :
          Room /\ Begin(p, "StartClient", NoClient, <<"a1", id, FALSE, <<>>, a>>)
    \/ \E p \in Procs, o \in Active : Begin(p, "StartClientTunnels", o, <<(<<>>)>>)
    \/ \E p \in Procs, o \in Objects : Ended(o) /\ Begin(p, "Terminate", o, <<>>)
    \/ \E p \in Procs, o \in Registered : Begin(p, "ForceDelete", o, <<>>)
    \/ \E p \in Procs, f \in {"none", "get", "refresh", "close", "delete"} : Lock(p, f)
    \/ \E p \in Procs, f \in {"none", "get", "save"} : Body(p, f)
    \/ \E o \in Objects : ConnectionLost(o)

\* sync.Mutex hands the lock to a goroutine that keeps waiting for it
\* (starvation mode), and a goroutine that can run does run
SpecLock ==
    /\ Init
    /\ [][NextLock]_vars
    /\ \A p \in Procs :
          /\ SF_vars(\E f \in {"none", "get", "refresh", "close", "delete"} : Lock(p, f))
          /\ WF_vars(\E f \in {"none", "get", "save"} : Body(p, f))

\* Query construction: addWhere and AppendOptionsToQuery on every list of
\* filters, on queries without a WHERE clause and with one in either case,
\* on queries that select every column, with and without sort options,
\* field options, pagination and parameters.
FilterOptions ==
    {FilterOption(<<"l">>, <<"=">>, <<"9">>, TRUE),
     FilterOption(<<"l">>, <<"=">>, <<"5">>, TRUE),
     FilterOption(<<"a">>, <<"=">>, <<"1">>, FALSE),
     FilterOption(<<"b">>, <<">">>, <<"1", "2">>, FALSE)}

FilterLists == UNION {[1..n -> FilterOptions] : n \in 0..MaxFilters}

Queries ==
    {<<"q">>,
     <<"q", " ", "w", "h", "e", "r", "e", " ", "x">>,
     <<"q", " ", "W", "H", "E", "R", "E", " ", "x">>,
     <<"s", "e", "l", "e", "c", "t", " ", "*", " ", "q">>,
     <<"S", "E", "L", "E", "C", "T", " ", "*", " ", "q">>}

SortLists ==
    {<<>>, <<SortOption(<<"a">>, TRUE)>>,
     <<SortOption(<<"a">>, FALSE), SortOption(<<"b">>, TRUE)>>}

FieldLists ==
    {<<>>, <<FieldsOption(<<"r">>, <<>>)>>,
     <<FieldsOption(<<"r">>, << <<"a">>, <<"b">> >>)>>}

Paginations == {NoPagination, Pagination("5", "0")}

\* The functions keep nothing between two calls: a behaviour is one call.
NextQuery ==
    \/ \E fs \in FilterLists, q \in Queries, ps \in {<<>>, <<"0">>} :
          last = NoCall /\ AddWhere(fs, q, ps)
    \/ \E fs \in FilterLists, ss \in SortLists, fo \in FieldLists, pg \in Paginations,
          q \in Queries, ps \in {<<>>, <<"0">>} :
          last = NoCall /\ AppendOptionsToQuery(ListOptions(fs, ss, fo, pg), q, ps)

SpecQuery == Init /\ [][NextQuery]_vars
\* ------------------------------------------------------------------ claims

\* the content of the registry: the client each id has, if it has one
Registry == [id \in ClientIDs |-> IF repo[id] = NoClient THEN NoObj ELSE objs[repo[id]]]

RegistryUnchanged == repo' = repo /\ Registry' = Registry

\* goroutine p is inside a handler, past s.mu.Lock() if the handler locks
Mid(p) == pc[p].at \notin {"idle", "lock"}

\* this step is one of p inside op, at the statement `at`
Runs(p, op, at) == pc[p].op = op /\ pc[p].at = at /\ pc'[p] # pc[p]

\* with this step p has begun to run op, which goes on after it
Enters(p, op) == ~Mid(p) /\ pc'[p].op = op /\ pc'[p].at \notin {"idle", "lock"}

\* the call that this step completed ran in this step from its first statement
FirstStep == \A p \in Procs : ~(Mid(p) /\ pc'[p].at = "idle")

\* C1 as stated: a StartClient for a client id whose record is connected
\* fails with "client id already in use" and changes nothing in the registry.
C1_AlwaysConflict ==
    [][/\ \A p \in Procs : Enters(p, "StartClient") => ~Connected(pc'[p].args[2])
       /\ (last'.op = "StartClient" /\ FirstStep /\ Connected(last'.id))
             => (last'.err = "id_in_use" /\ RegistryUnchanged)]_vars

\* C1: a StartClient that looks up a client id whose record is connected
\* goes no further: it fails, with "client id already in use" or, when the
\* lookup itself fails, with "failed to get client by id", and changes
\* nothing in the registry.
C1_ConnectedIdRejected ==
    [][/\ \A p \in Procs : Enters(p, "StartClient") => ~Connected(pc'[p].args[2])
       /\ (last'.op = "StartClient" /\ FirstStep /\ Connected(last'.id))
             => (last'.err \in {"id_in_use", "get_failed"} /\ RegistryUnchanged)]_vars

\* a second StartClient for a connected id was refused
C1_Witness ==
    /\ last.op = "StartClient"
    /\ last.err = "id_in_use"
    /\ Connected(last.id)

\* C2: with multi-use credentials disabled, a StartClient that passes the id
\* check fails with the auth-id conflict exactly when the auth id is attached
\* to another connected client id; a disconnected record does not block it.
C2_AuthConflictIffOtherConnected ==
    [][\A p \in Procs :
          Runs(p, "StartClient", "auth")
            => ((last'.op = "StartClient" /\ last'.err = "auth_in_use")
                  <=> \E o \in Registered :
                         /\ objs[o].ClientAuthID = pc[p].args[1]
                         /\ objs[o].ID # pc[p].args[2]
                         /\ ~objs[o].DisconnectedAt)]_vars

\* C6 as stated: Terminate removes the record when KeepLostClients is nil;
\* when it is set and there is a record, it leaves a record of that id with
\* DisconnectedAt set.
C6_RetentionAlways ==
    [][last'.op = "Terminate"
         => IF ~KeepLostClients
            THEN repo'[last'.id] = NoClient
            ELSE GetByID(last'.id) # NoClient
                   => /\ repo'[last'.id] # NoClient
                      /\ objs'[repo'[last'.id]].DisconnectedAt]_vars

\* C6: a Terminate that returns no error has removed the record when
\* KeepLostClients is nil; when it is set, it returns from the lookup only
\* if there is no record, and else leaves its client as the record of the
\* id, with DisconnectedAt set.  A Terminate that returns an error has not
\* changed which client each id has.
C6_Retention ==
    [][last'.op = "Terminate"
         => IF last'.err # "nil" THEN repo' = repo
            ELSE IF ~KeepLostClients THEN repo'[last'.id] = NoClient
            ELSE IF \E p \in Procs : Runs(p, "Terminate", "get")
            THEN GetByID(last'.id) = NoClient /\ repo' = repo
            ELSE /\ repo'[last'.id] = last'.obj
                 /\ objs'[last'.obj].DisconnectedAt]_vars

\* Terminate under retention left the disconnected record in the repository
C6_Witness ==
    /\ last.op = "Terminate"
    /\ last.err = "nil"
    /\ KeepLostClients
    /\ GetByID(last.id) = last.obj
    /\ objs[last.obj].DisconnectedAt

\* C7 as stated: a Terminate for a client whose id has no record (it was
\* force-deleted) returns no error and leaves the id without a record, under
\* either retention setting.
C7_NoError ==
    [][/\ \A p \in Procs :
             (Runs(p, "Terminate", "get") /\ GetByID(objs[pc[p].obj].ID) = NoClient)
               => /\ last'.op = "Terminate"
                  /\ last'.err = "nil"
                  /\ repo'[last'.id] = NoClient
       /\ (last'.op = "Terminate" /\ FirstStep /\ GetByID(last'.id) = NoClient)
             => (last'.err = "nil" /\ repo'[last'.id] = NoClient)]_vars

\* C7: a Terminate that finds no record of its client's id (it was
\* force-deleted) returns at once and leaves the id without a record, under
\* either retention setting; it returns no error unless the repository call
\* itself (the lookup under retention, the Delete without) fails.
C7_TerminateAfterForceDelete ==
    [][/\ \A p \in Procs :
             (Runs(p, "Terminate", "get") /\ GetByID(objs[pc[p].obj].ID) = NoClient)
               => /\ last'.op = "Terminate"
                  /\ last'.err \in {"nil", "get_failed"}
                  /\ repo'[last'.id] = NoClient
       /\ (last'.op = "Terminate" /\ FirstStep /\ GetByID(last'.id) = NoClient)
             => (last'.err \in {"nil", "delete_failed"} /\ repo'[last'.id] = NoClient)]_vars

\* under retention, Terminate ran for a deleted client and wrote nothing
C7_Witness ==
    /\ last.op = "Terminate"
    /\ last.err = "nil"
    /\ KeepLostClients
    /\ GetByID(last.id) = NoClient

\* DeleteOffline up to its Delete: the empty id is a bad request, an id
\* without a record is not found, a client that is connected when it is
\* checked is a bad request, and none of this changes the registry
DeleteOfflineRefusals(lookupErrors) ==
    /\ (last'.op = "DeleteOffline" /\ FirstStep)
          => /\ RegistryUnchanged
             /\ \/ last'.id = "" /\ last'.err = "empty_id" /\ HTTPStatus(last'.err) = 400
                \/ last'.id # "" /\ last'.err \in lookupErrors
                \/ /\ last'.id # ""
                   /\ GetByID(last'.id) = NoClient
                   /\ last'.err = "not_found"
                   /\ HTTPStatus(last'.err) = 404
    /\ \A p \in Procs :
          /\ Enters(p, "DeleteOffline")
                => (pc'[p].obj # NoClient /\ pc'[p].obj = GetByID(pc'[p].args[1]))
          /\ Runs(p, "DeleteOffline", "check")
                => /\ RegistryUnchanged
                   /\ IF ~objs[pc[p].obj].DisconnectedAt
                      THEN /\ last'.op = "DeleteOffline"
                           /\ last'.err = "client_active"
                           /\ HTTPStatus(last'.err) = 400
                      ELSE pc'[p].at = "delete"

\* C10 as stated: DeleteOffline fails with a bad request for the empty id,
\* with not found when the id has no record, with a bad request when the
\* client it fetched is connected, and deletes the record otherwise; a
\* failing call changes nothing.
C10_AlwaysDeletes ==
    [][/\ DeleteOfflineRefusals({})
       /\ \A p \in Procs :
             Runs(p, "DeleteOffline", "delete")
               => /\ last'.op = "DeleteOffline"
                  /\ last'.err = "nil"
                  /\ repo'[last'.id] = NoClient]_vars

\* C10: the same, and when the repository call itself fails (the lookup or
\* the Delete) DeleteOffline returns that error and changes nothing.
C10_DeleteOffline ==
    [][/\ DeleteOfflineRefusals({"get_failed"})
       /\ \A p \in Procs :
             Runs(p, "DeleteOffline", "delete")
               => /\ last'.op = "DeleteOffline"
                  /\ \/ last'.err = "nil" /\ repo'[last'.id] = NoClient
                     \/ last'.err = "delete_failed" /\ RegistryUnchanged]_vars

\* DeleteOffline refused to delete a connected client
C10_Witness ==
    /\ last.op = "DeleteOffline"
    /\ last.err = "client_active"
    /\ Connected(last.id)

\* the tunnel at position p = <<client object, index>>
TunnelAt(p) == objs[p[1]].Tunnels[p[2]]

\* C3: no two bound tunnels hold the same local port.
C3_PortsUnique ==
    \A p \in LiveTunnels(objs), q \in LiveTunnels(objs) :
        p # q => TunnelPort(TunnelAt(p)) # TunnelPort(TunnelAt(q))

\* two connected clients hold bound tunnels, one on a random port and one on
\* an explicit port
C3_Witness ==
    \E p \in LiveTunnels(objs), q \in LiveTunnels(objs) :
        /\ p[1] # q[1]
        /\ TunnelAt(p).Remote.LocalPortRandom
        /\ ~TunnelAt(q).Remote.LocalPortRandom

\* the tunnels the call in `last` allocated
Allocated ==
    IF last.op = "StartClient" THEN objs[last.obj].Tunnels
    ELSE IF last.op = "StartClientTunnels" THEN last.out
    ELSE <<>>

\* C4: right after a call that allocated tunnels, IsPortBusy is true of the
\* local port of each of them, whether the port was random or explicit.
C4_BusyAfterAllocation ==
    (last.op \in {"StartClient", "StartClientTunnels"} /\ last.err = "nil")
        => \A i \in 1..Len(Allocated) : IsPortBusy(TunnelPort(Allocated[i]), busy)

TargetsOf(remotes) == {remotes[i].Remote : i \in 1..Len(remotes)}

\* C5: a StartClient that succeeds for an id with a retained disconnected
\* record, requesting remotes disjoint from those of the old tunnels, yields
\* a client with a tunnel for every old remote (on the same port if the port
\* was explicit) and for every requested remote.
C5_Reconnect ==
    [][\A p \in Procs :
          (/\ Runs(p, "StartClient", "save")
           /\ last'.err = "nil"
           /\ pc[p].old # NoClient
           /\ TargetsOf(getRemotesOf(objs[pc[p].old].Tunnels))
                 \cap TargetsOf(pc[p].args[4]) = {})
            => LET old == getRemotesOf(objs[pc[p].old].Tunnels)
                   new == getRemotesOf(objs'[last'.obj].Tunnels)
               IN  /\ last'.op = "StartClient"
                   /\ \A i \in 1..Len(old) : \E j \in 1..Len(new) :
                         /\ new[j].Remote = old[i].Remote
                         /\ new[j].ACL = old[i].ACL
                         /\ new[j].LocalPortRandom = old[i].LocalPortRandom
                         /\ ~old[i].LocalPortRandom => new[j].LocalPort = old[i].LocalPort
                   /\ TargetsOf(pc[p].args[4]) \subseteq TargetsOf(new)]_vars

\* a client that requested rB alone came back with a tunnel to rA as well
C5_Witness ==
    /\ last.op = "StartClient"
    /\ last.err = "nil"
    /\ TargetsOf(last.req[2]) = {"rB"}
    /\ TargetsOf(getRemotesOf(objs[last.obj].Tunnels)) = {"rA", "rB"}

\* C8: no step of a StartClient that fails, at whichever statement, and no
\* step of a StartClient before its Save, changes the registry.
C8_StartClientAllOrNothing ==
    [][/\ (last'.op = "StartClient" /\ last'.err # "nil") => RegistryUnchanged
       /\ \A p \in Procs :
             (pc'[p].op = "StartClient" /\ pc'[p] # pc[p]) => RegistryUnchanged]_vars

\* a reconnecting client failed on its second remote and its retained record
\* is still there
C8_Witness ==
    /\ last.op = "StartClient"
    /\ last.err \in {"tunnel_conflict", "invalid_port", "port_not_allowed", "acl_parse"}
    /\ GetByID(last.id) # NoClient
    /\ objs[GetByID(last.id)].DisconnectedAt

\* C9: CheckClientsAccess returns nil for an admin; for any other user it
\* returns nil iff every listed client had access when the loop read it, and
\* else one forbidden error naming exactly the listed clients that had none.
\* A call on one client reads it as the call returns.
C9_AccessDenied ==
    last.op = "CheckClientsAccess" =>
        LET clients == last.req[1]
            user    == last.req[2]
            seen    == last.req[3]
            denied  == {objs[clients[i]].ID : i \in {k \in 1..Len(clients) : ~seen[k]}}
        IN  /\ user.admin => last.err = "nil"
            /\ ~user.admin =>
                  /\ Len(seen) = Len(clients)
                  /\ Len(clients) = 1
                        => seen[1] = HasAccess(objs[clients[1]], user.groups)
                  /\ (last.err = "nil") <=> (denied = {})
                  /\ last.err # "nil" =>
                        /\ last.err = "forbidden"
                        /\ HTTPStatus(last.err) = 403
                        /\ {last.out[i] : i \in 1..Len(last.out)} = denied

\* c1 is open to G1 and c2 to G2: a user of G1 alone is refused, for c2 only
C9_Witness ==
    /\ last.op = "CheckClientsAccess"
    /\ Len(last.req[1]) = 2
    /\ ~last.req[2].admin
    /\ last.req[2].groups = {"G1"}
    /\ objs[last.req[1][1]].AllowedUserGroups = {"G1"}
    /\ objs[last.req[1][2]].AllowedUserGroups = {"G2"}
    /\ last.req[3] = <<TRUE, FALSE>>
    /\ last.err = "forbidden"
    /\ last.out = <<objs[last.req[1][2]].ID>>

\* C11 as stated: after any ForceDelete the id has no record, and the
\* connection of a client that was connected is closed.
C11_ForceDeleteAlways ==
    [][last'.op = "ForceDelete"
         => /\ repo'[last'.id] = NoClient
            /\ ~objs[last'.obj].DisconnectedAt => objs'[last'.obj].conn # "open"]_vars

\* C11: a ForceDelete that returns no error leaves the id without a record
\* under either retention setting, with the connection of a client that was
\* connected closed.  A ForceDelete returns an error when Close fails on a
\* connected client, and then nothing has changed, or when the Delete fails,
\* and then the connection of a connected client is closed and the record is
\* still there.
C11_ForceDelete ==
    [][last'.op = "ForceDelete"
         => CASE last'.err = "nil"
                   -> /\ repo'[last'.id] = NoClient
                      /\ ~objs[last'.obj].DisconnectedAt => objs'[last'.obj].conn # "open"
              [] last'.err = "close_failed"
                   -> ~objs[last'.obj].DisconnectedAt /\ RegistryUnchanged
              [] last'.err = "delete_failed"
                   -> /\ repo' = repo
                      /\ ~objs[last'.obj].DisconnectedAt => objs'[last'.obj].conn # "open"
              [] OTHER -> FALSE]_vars

\* under retention a connected client was force-deleted: its connection is
\* closed and its id has no record
C11_Witness ==
    /\ last.op = "ForceDelete"
    /\ last.err = "nil"
    /\ KeepLostClients
    /\ ~objs[last.obj].DisconnectedAt
    /\ objs[last.obj].conn = "ended"
    /\ GetByID(last.id) = NoClient

\* C12: for every record of the registry, DisconnectedAt is nil if and only
\* if the record holds its live-connection handle.
C12_ConnectedIffHandle ==
    \A o \in Registered : ~objs[o].DisconnectedAt <=> objs[o].Connection

\* C13: the Save of a SetACL or SetUpdatesStatus that runs while the record
\* of its client id is a connected client leaves that client registered: it
\* does not put the record it fetched earlier in its place.
C13_UpdateKeepsConnected ==
    [][\A p \in Procs :
          (/\ pc[p].op \in {"SetACL", "SetUpdatesStatus"}
           /\ pc[p].at = "save"
           /\ pc'[p] # pc[p]
           /\ Connected(pc[p].args[1]))
            => repo'[pc[p].args[1]] = repo[pc[p].args[1]]]_vars

\* C14: after PopulateGroupsWithUserClients the member list of each group
\* is in ascending order and holds exactly the ids of the clients the user
\* may see that belong to the group, in whichever order the repository
\* returned the clients.
C14_GroupsSorted ==
    last.op = "PopulateGroups" =>
        LET groups == last.req[1]
            user   == last.req[2]
            out    == last.out
        IN  /\ Len(out) = Len(groups)
            /\ \A g \in 1..Len(out) :
                  LET ids == out[g].ClientIDs
                  IN  /\ \A i, j \in 1..Len(ids) : i < j => StrLess(ids[i], ids[j])
                      /\ {ids[i] : i \in 1..Len(ids)}
                            = {objs[o].ID : o \in {c \in UserClients(user) :
                                                      BelongsTo(objs[c], groups[g])}}

\* the errors of startClientTunnels that come from one of the remotes
RemoteErrors ==
    {"no_free_port", "invalid_port", "port_not_allowed", "port_busy", "acl_parse",
     "tunnel_conflict"}

\* C15: a StartClientTunnels that fails on one of its remotes for a
\* registered client leaves the tunnel list of the registered client as it
\* was before the call.
C15_NoHalfBuiltTunnels ==
    [][(last'.op = "StartClientTunnels" /\ last'.err \in RemoteErrors
          /\ GetByID(last'.id) = last'.obj)
         => /\ repo'[last'.id] = last'.obj
            /\ objs'[last'.obj].Tunnels = objs[last'.obj].Tunnels]_vars

\* this step is one of Terminate(client) for the client object o
TerminateOn(o) ==
    \/ last'.op = "Terminate" /\ FirstStep /\ last'.obj = o
    \/ \E p \in Procs :
          \/ Enters(p, "Terminate") /\ pc'[p].obj = o
          \/ pc[p].op = "Terminate" /\ Mid(p) /\ pc[p].obj = o /\ pc'[p] # pc[p]

\* C16: a Terminate for a client object that is no longer the registered
\* one, while the client registered under its id is connected, leaves that
\* client registered and connected, under either retention setting.
C16_StaleTerminate ==
    [][\A o \in Objects :
          (TerminateOn(o) /\ Connected(objs[o].ID) /\ GetByID(objs[o].ID) # o)
            => /\ repo'[objs[o].ID] = repo[objs[o].ID]
               /\ ~objs'[repo[objs[o].ID]].DisconnectedAt]_vars

\* C17: the Delete of a DeleteOffline that runs while the record of its
\* client id is a connected client leaves the id registered.
C17_DeleteOfflineKeepsConnected ==
    [][\A p \in Procs :
          (Runs(p, "DeleteOffline", "delete") /\ Connected(pc[p].args[1]))
            => repo'[pc[p].args[1]] # NoClient]_vars

\* C18: right after a ForceDelete or DeleteOffline removed the record of an
\* id, only a successful StartClient gives the id a record again.
C18_NoReinsert ==
    [][(/\ last.op \in {"ForceDelete", "DeleteOffline"}
        /\ last.err = "nil"
        /\ GetByID(last.id) = NoClient
        /\ repo'[last.id] # NoClient)
         => (last'.op = "StartClient" /\ last'.err = "nil" /\ last'.id = last.id)]_vars

\* CheckClientAccess(id, u) in this state would return the forbidden error
Refused(id, u) ==
    /\ getExistingByID(id, "none").err = "nil"
    /\ ~u.admin
    /\ CheckClientsAccessCall(
           clientsWithNoAccess(getExistingByID(id, "none").obj, u, <<>>)) = "forbidden"

\* C19: when a client registers again under its id and replaces the retained
\* record it found, every user that CheckClientAccess refused for that id
\* before the StartClient saved is still refused after it.
C19_ACLSurvivesReconnect ==
    [][\A p \in Procs, id \in ClientIDs, u \in Users :
          (/\ Runs(p, "StartClient", "save")
           /\ last'.op = "StartClient"
           /\ last'.err = "nil"
           /\ pc[p].args[2] = id
           /\ pc[p].old # NoClient
           /\ GetByID(id) = pc[p].old
           /\ Refused(id, u))
            => Refused(id, u)']_vars

\* the tunnel was created for the remote as requested
CreatedFor(tunnel, remote) ==
    /\ tunnel.Remote.Remote = remote.Remote
    /\ tunnel.Remote.ACL = remote.ACL
    /\ IF IsLocalSpecified(remote)
       THEN tunnel.Remote.LocalPort = remote.LocalPort /\ ~tunnel.Remote.LocalPortRandom
       ELSE tunnel.Remote.LocalPortRandom

\* the error is one that the remote can fail with
FailsAt(err, remote) ==
    /\ err = "no_free_port" => ~IsLocalSpecified(remote)
    /\ err \in {"invalid_port", "port_not_allowed", "port_busy"}
          => IsLocalSpecified(remote) /\ checkLocalPort(remote.LocalPort, {}) \in {err, "nil"}
    /\ err = "acl_parse" => ~ParseTunnelACL(remote.ACL).ok

\* C20: startClientTunnels goes through the remotes in request order.  A
\* StartClientTunnels that succeeds returns one tunnel per remote, in the
\* order of the request, and has appended them to the client in that order.
\* One that fails on a remote returns no tunnels; the tunnels it created are
\* those of the first remotes of the request, in order, the error is one of
\* the next remote, and the distributor gave out no more ports than there are
\* remotes without a local port up to that one.  A StartClient that succeeds
\* returns a client with one tunnel per remote it started, in their order;
\* one that fails on a remote fails with an error of a remote k, and the
\* distributor gave out a port for each remote without a local port before
\* k and for none after k.
C20_RequestOrder ==
    [][/\ last'.op = "StartClientTunnels" =>
            LET req    == last'.req
                before == objs[last'.obj].Tunnels
                after  == objs'[last'.obj].Tunnels
                n      == Len(after) - Len(before)
            IN  /\ SubSeq(after, 1, Len(before)) = before
                /\ n \in 0..Len(req)
                /\ \A i \in 1..n : CreatedFor(after[Len(before) + i], req[i])
                /\ last'.err = "nil" =>
                      /\ n = Len(req)
                      /\ last'.out = SubSeq(after, Len(before) + 1, Len(after))
                /\ last'.err # "nil" => last'.out = <<>>
                /\ last'.err = "refresh_failed" => n = 0 /\ busy' = busy
                /\ last'.err \in RemoteErrors =>
                      /\ n < Len(req)
                      /\ FailsAt(last'.err, req[n + 1])
                      /\ Cardinality(busy' \ Refresh(objs))
                            <= Cardinality({i \in 1..(n + 1) : ~IsLocalSpecified(req[i])})
       /\ \A p \in Procs :
             Runs(p, "StartClient", "save") =>
                LET req   == pc[p].tmp[1]
                    given == Cardinality(busy' \ Refresh(objs))
                IN  /\ last'.op = "StartClient"
                    /\ last'.err = "nil" =>
                          LET after == objs'[last'.obj].Tunnels
                          IN  /\ Len(after) = Len(req)
                              /\ \A i \in 1..Len(req) : CreatedFor(after[i], req[i])
                    /\ last'.err # "nil" => last'.obj = NoClient
                    /\ last'.err = "refresh_failed" => busy' = busy
                    /\ last'.err \in RemoteErrors =>
                          \E k \in 1..Len(req) :
                             /\ FailsAt(last'.err, req[k])
                             /\ Cardinality({i \in 1..(k - 1) : ~IsLocalSpecified(req[i])})
                                   <= given
                             /\ given
                                   <= Cardinality({i \in 1..k : ~IsLocalSpecified(req[i])})]_vars

\* a call with two remotes failed on the second one after it had created the
\* tunnel of the first
C20_Witness ==
    /\ last.op = "StartClientTunnels"
    /\ last.err \in RemoteErrors
    /\ Len(last.req) = 2
    /\ objs[last.obj].Tunnels # <<>>
    /\ CreatedFor(objs[last.obj].Tunnels[Len(objs[last.obj].Tunnels)], last.req[1])

\* C21: checkLocalPort returns the bad request "invalid port" for a port that
\* is no integer, else the bad request "not among allowed ports" for a port
\* outside the allowed set, busy or not, else the conflict "already in use"
\* for a port of the busy snapshot, and nil for every other port.
C21_CheckLocalPortOrder ==
    last.op = "checkLocalPort" =>
        LET localPort == Atoi(last.req)
        IN  IF ~localPort.ok
            THEN last.err = "invalid_port" /\ HTTPStatus(last.err) = 400
            ELSE IF localPort.val \notin AllowedPorts
            THEN last.err = "port_not_allowed" /\ HTTPStatus(last.err) = 400
            ELSE IF localPort.val \in busy
            THEN last.err = "port_busy" /\ HTTPStatus(last.err) = 409
            ELSE last.err = "nil"

\* a port outside the allowed set that is in the busy snapshot was refused
\* as a bad request
C21_Witness ==
    /\ last.op = "checkLocalPort"
    /\ Atoi(last.req).ok
    /\ Atoi(last.req).val \notin AllowedPorts
    /\ Atoi(last.req).val \in busy
    /\ last.err = "port_not_allowed"

\* C22: every call that has begun returns, and a goroutine that is in no
\* call, or waits in s.mu.Lock(), does not hold the lock: the lock is held
\* only by a goroutine between its Lock and its return.
C22_CallsReturn ==
    /\ [](\A p \in Procs : ~Mid(p) => mu # p)
    /\ \A p \in Procs : (pc[p].at # "idle") ~> (pc[p].at = "idle")

\* a StartClient has just returned an error while another goroutine waits
\* in s.mu.Lock(), and the lock is free
C22_Witness ==
    /\ last.op = "StartClient"
    /\ last.err # "nil"
    /\ mu = NoProc
    /\ \E q \in Procs : pc[q].at = "lock"

\* the filters are some, and all of them limit filters
LimitFiltersOnly(filterOptions) ==
    /\ filterOptions # <<>>
    /\ \A i \in 1..Len(filterOptions) : IsLimitFilter(filterOptions[i])

\* C23: addWhere on a non-empty list of filters that are all limit filters
\* returns the query and the parameters unchanged, and an
\* AppendOptionsToQuery with such filters returns what it returns without
\* filters.
C23_NoDanglingWhere ==
    /\ (last.op = "addWhere" /\ LimitFiltersOnly(last.req[1]))
          => (last.out.q = last.req[2] /\ last.out.params = last.req[3])
    /\ (last.op = "AppendOptionsToQuery" /\ LimitFiltersOnly(last.req[1].Filters))
          => last.out = AppendOptionsToQueryCall([last.req[1] EXCEPT !.Filters = <<>>],
                                                 last.req[2], last.req[3])

====
